---- MODULE Spec2Model ----
(***************************************************************************)
(* A model of the spam e-mail processing pipeline of src/spam-email.py     *)
(* (class SpamEmailProcessor): the consume / logs / processed directories, *)
(* the per-artifact processing steps of process_email_file, the two-file   *)
(* result log of log_processing_results and the batch loop of              *)
(* process_all_emails.  External calls (HTTP GET, WHOIS, file writes, the  *)
(* rename, the wall clock) are nondeterministic choices over the outcomes  *)
(* they can have; a run can be killed between any two steps.               *)
(***************************************************************************)
EXTENDS Integers, Sequences, FiniteSets, TLC

(* ------------------------------ bounds -------------------------------- *)
\* the wall clock runs over the ticks 0..MaxClock
MaxClock == 2
\* clock ticks per second: strftime('%Y%m%d_%H%M%S') drops the sub-second part
TicksPerSecond == 2

\* the file names an artifact can be deposited under (*.eml and *.msg)
Artifacts == {"a.eml", "b.msg"}
Urls == {"u1", "u2"}
Domains == {"spammy.example"}
NoDomain == ""
\* outcomes of requests.get: a final status code, or a transport exception
Statuses == {200, 204, 404}
Exceptions == {"timeout"}
Outcomes ==
    {[status |-> c] : c \in Statuses} \cup {[exception |-> e] : e \in Exceptions}
LookupOutcomes == {"found", "unavailable"}

VARIABLES
    mail,          \* deposited artifact -> what the file holds (fixed)
    consume,       \* artifacts in the consume (intake) directory
    processed,     \* artifacts in the processed (completed) directory
    metaLog,       \* logs/email_metadata_<ts>.json : ts -> content
    actLog,        \* logs/actions_taken_<ts>.json  : ts -> content
    activity,      \* the activity log (spam_processor_<day>.log), a sequence
    clock,         \* the wall clock, in ticks
    runs,          \* how many runs of process_all_emails were started
    pc,            \* position of the running process ("idle": none running)
    email_files,   \* process_all_emails: the artifacts still to iterate over
    cur,           \* process_email_file: email_file_path
    work,          \* process_email_file: its locals (links, results, ...)
    last,          \* what the last finished process_email_file call did
    log_files,     \* generate_summary_report: the metadata files still to read
    summary,       \* generate_summary_report: the summary being built
    report,        \* logs/summary_report_<day>.json (NoneVal: not written)
    input,         \* the arguments of the extraction function under study
    output         \* what that function returned (or that it raised)

\* the variables the processing pipeline never touches
aux == <<log_files, summary, report, input, output>>

vars == <<mail, consume, processed, metaLog, actLog, activity, clock, runs,
          pc, email_files, cur, work, last, aux>>

(* ------------------------------ helpers ------------------------------- *)
Range(s) == {s[i] : i \in DOMAIN s}

\* the sequences that list every element of the set S exactly once
Orderings(S) ==
    {s \in [1..Cardinality(S) -> S] : Range(s) = S}

\* Python's None (whois_data of a message without sender domain)
NoneVal == [none |-> TRUE]

\* one line of the activity log: about a file, about a link, or about the run
FileLine(level, event, file) == [level |-> level, event |-> event, file |-> file]
LinkLine(level, event, link) == [level |-> level, event |-> event, link |-> link]
RunLine(level, event) == [level |-> level, event |-> event]

(* ------------------------ what an artifact holds ----------------------- *)
\* An artifact is described by what the extraction steps read from it:
\*   readable         open() + message_from_bytes + the extractors succeed
\*   from_domain      the domain the regex of extract_email_metadata finds
\*   list_unsubscribe the entries of the List-Unsubscribe header, in order
\*   anchors          the <a href> elements of the HTML body, in order
\*   text_urls        the http(s) URLs of the plain-text body, in order
\*   brands           the company_reporting keys found in the content
HeaderEntry(uri, web) == [uri |-> uri, web |-> web]
Anchor(href, optout) == [href |-> href, optout |-> optout]
TextUrl(url, keyword) == [url |-> url, keyword |-> keyword]

Malformed ==
    [readable |-> FALSE, from_domain |-> NoDomain, list_unsubscribe |-> <<>>,
     anchors |-> <<>>, text_urls |-> <<>>, brands |-> <<>>]
Plain ==
    [readable |-> TRUE, from_domain |-> NoDomain, list_unsubscribe |-> <<>>,
     anchors |-> <<>>, text_urls |-> <<>>, brands |-> <<>>]
Promo ==
    [readable |-> TRUE, from_domain |-> "spammy.example",
     list_unsubscribe |-> <<>>,
     anchors |-> <<Anchor("u1", TRUE), Anchor("u2", FALSE), Anchor("u1", TRUE)>>,
     text_urls |-> <<TextUrl("u2", FALSE)>>,
     brands |-> <<>>]
Listed ==
    [readable |-> TRUE, from_domain |-> "spammy.example",
     list_unsubscribe |-> <<HeaderEntry("u1", TRUE), HeaderEntry("m1", FALSE)>>,
     anchors |-> <<Anchor("u1", TRUE)>>,
     text_urls |-> <<TextUrl("u1", TRUE)>>,
     brands |-> <<"paypal">>]
MailSet == {Malformed, Plain, Promo, Listed}

(* --------------------------- pure functions ---------------------------- *)
\* the field `field` of the elements of s whose field `flag` is set, in order
RECURSIVE SelectField(_, _, _)
SelectField(s, flag, field) ==
    IF s = <<>> THEN <<>>
    ELSE (IF Head(s)[flag] THEN <<Head(s)[field]>> ELSE <<>>)
         \o SelectField(Tail(s), flag, field)

\* find_unsubscribe_links: the hrefs of the anchors whose text matches an
\* opt-out pattern, extended by the plain-text URLs that hold a keyword
body_links(m) ==
    SelectField(m.anchors, "optout", "href")
    \o SelectField(m.text_urls, "keyword", "url")

\* list(set(unsubscribe_links)): every order of the distinct elements
find_unsubscribe_links(m) == Orderings(Range(body_links(m)))

\* re.findall(r'<(https?://[^>]+)>', list_unsubscribe)
list_unsub_urls(m) == SelectField(m.list_unsubscribe, "web", "uri")

\* the result attempt_unsubscribe records for one link
AttemptResult(link, o) ==
    IF "status" \in DOMAIN o
    THEN [link |-> link, status_code |-> o.status, success |-> (o.status = 200)]
    ELSE [link |-> link, error |-> o.exception, success |-> FALSE]

\* the loop with the try around it instead of in it: the first exception
\* ends the loop
RECURSIVE AttemptLoopAborting(_, _, _)
AttemptLoopAborting(links, out, i) ==
    IF i > Len(links) \/ "exception" \in DOMAIN out[i] THEN <<>>
    ELSE <<AttemptResult(links[i], out[i])>> \o AttemptLoopAborting(links, out, i + 1)

attempt_unsubscribe_aborting(links, out) == AttemptLoopAborting(links, out, 1)

\* attempt_unsubscribe: one result per link, in link order; out[i] is what
\* requests.get does for the i-th link
RECURSIVE AttemptLoop(_, _, _)
AttemptLoop(links, out, i) ==
    IF i > Len(links) THEN <<>>
    ELSE <<AttemptResult(links[i], out[i])>> \o AttemptLoop(links, out, i + 1)

attempt_unsubscribe(links, out) == AttemptLoop(links, out, 1)

\* the activity-log lines attempt_unsubscribe writes
AttemptLines(results) ==
    [i \in 1..Len(results) |->
        IF "error" \in DOMAIN results[i]
        THEN LinkLine("ERROR", "unsubscribe_failed", results[i].link)
        ELSE LinkLine("INFO", "unsubscribe_attempt", results[i].link)]

\* whois.whois(domain): a registration record, or an exception
whois_query(domain, o) ==
    IF o = "found"
    THEN [raised |-> FALSE, registrar |-> "registrar"]
    ELSE [raised |-> TRUE, error |-> o]

\* the lookup without its try/except: the exception of whois.whois escapes
perform_whois_lookup_unguarded(domain, o) ==
    LET w == whois_query(domain, o) IN
    IF w.raised
    THEN w
    ELSE [domain |-> domain, registrar |-> w.registrar]

\* perform_whois_lookup: the try/except around whois.whois
perform_whois_lookup(domain, o) ==
    LET w == whois_query(domain, o) IN
    IF w.raised
    THEN [domain |-> domain, error |-> w.error]
    ELSE [domain |-> domain, registrar |-> w.registrar]

\* report_to_companies: one staged report per identified company
report_to_companies(identified) ==
    [i \in 1..Len(identified) |-> [company |-> identified[i]]]

\* strftime('%Y%m%d_%H%M%S') of the clock: the sub-second part is dropped
FormatTs(t) == t \div TicksPerSecond

\* an exception travelling up to the except clause of process_email_file
Raised(x) == "raised" \in DOMAIN x /\ x.raised

\* the content of email_metadata_<ts>.json
MetadataRecord(file, w) ==
    [valid |-> TRUE, file_path |-> file, sender_domain |-> w.sender_domain,
     whois_data |-> w.whois_data,
     processing_timestamp |-> w.processing_timestamp]

\* the actions record with its processing_timestamp read from the clock
\* again when the record is written
ActionsRecordStampedAtWrite(file, w) ==
    [valid |-> TRUE, file_path |-> file,
     unsubscribe_attempts |-> w.results,
     company_reports |-> report_to_companies(w.identified),
     processing_timestamp |-> clock]

\* the content of actions_taken_<ts>.json
ActionsRecord(file, w) ==
    [valid |-> TRUE, file_path |-> file,
     unsubscribe_attempts |-> w.results,
     company_reports |-> report_to_companies(w.identified),
     processing_timestamp |-> w.processing_timestamp]

\* what a write that failed half-way leaves behind: open(..., 'w') truncated
\* the file and json.dump did not finish
Truncated == [valid |-> FALSE]

\* a copy instead of a rename: the file stays in consume/ as well
Copied(file) ==
    [consume |-> consume, processed |-> processed \cup {file}]

\* a rename to a place outside processed/: the file leaves consume/ only
RenamedAway(file) ==
    [consume |-> consume \ {file}, processed |-> processed]

\* email_file_path.rename(processed_dir / name): the file leaves consume/
\* and appears in processed/ in one step
Renamed(file) ==
    [consume |-> consume \ {file}, processed |-> processed \cup {file}]

\* the directory `dir` after name `ts` was (over)written with `content`
WriteFile(dir, ts, content) ==
    [n \in DOMAIN dir \cup {ts} |-> IF n = ts THEN content ELSE dir[n]]

(* ------------------------------- state -------------------------------- *)
NoFile == ""
NoWork ==
    [sender_domain |-> NoDomain, links |-> <<>>, responses |-> <<>>,
     results |-> <<>>, whois_data |-> NoneVal, identified |-> <<>>,
     processing_timestamp |-> 0, timestamp |-> 0]
NoCall == [file |-> NoFile, returned |-> "nothing", why |-> "", timestamp |-> 0]
EmptyDir == [n \in {} |-> Truncated]

\* the artifacts that were deposited
Deposited == DOMAIN mail

Init ==
    /\ \E files \in SUBSET Artifacts : mail \in [files -> MailSet]
    /\ consume = Deposited
    /\ processed = {}
    /\ metaLog = EmptyDir
    /\ actLog = EmptyDir
    /\ activity = <<>>
    /\ clock = 0
    /\ runs = 0
    /\ pc = "idle"
    /\ email_files = <<>>
    /\ cur = NoFile
    /\ work = NoWork
    /\ last = NoCall
    /\ log_files = <<>>
    /\ summary = NoneVal
    /\ report = NoneVal
    /\ input = NoneVal
    /\ output = NoneVal

\* the value process_email_file returned for `file`
Returned(file, what, why, w) ==
    [file |-> file, returned |-> what, why |-> why, timestamp |-> w.timestamp]

\* the except clause without its logger.error call
AbandonSilently(why) ==
    /\ UNCHANGED activity
    /\ last' = Returned(cur, "none", why, work)
    /\ pc' = "loop"
    /\ cur' = NoFile
    /\ work' = NoWork

\* the except clause re-raising after it logged: the run ends
AbandonAndStop(why) ==
    /\ activity' = Append(activity, FileLine("ERROR", "error_processing", cur))
    /\ last' = Returned(cur, "none", why, work)
    /\ pc' = "idle"
    /\ cur' = NoFile
    /\ work' = NoWork

\* process_email_file, lines 378-380: any exception of the try block is
\* logged, the call returns None and the caller goes on with the next file
Abandon(why) ==
    /\ activity' = Append(activity, FileLine("ERROR", "error_processing", cur))
    /\ last' = Returned(cur, "none", why, work)
    /\ pc' = "loop"
    /\ cur' = NoFile
    /\ work' = NoWork

(* ------------------------------ actions ------------------------------- *)
\* process_all_emails, lines 409-415: list the consume directory
StartRun ==
    /\ pc = "idle"
    /\ runs = 0
    /\ runs' = runs + 1
    /\ \E files \in Orderings(consume) :
          IF files = <<>>
          THEN /\ activity' = Append(activity, RunLine("INFO", "no_files"))
               /\ UNCHANGED <<pc, email_files>>
          ELSE /\ activity' = Append(activity, RunLine("INFO", "found_files"))
               /\ email_files' = files
               /\ pc' = "loop"
    /\ UNCHANGED <<aux, mail, consume, processed, metaLog, actLog, clock, cur, work, last>>

\* process_all_emails, lines 417-418, and process_email_file, line 313:
\* the loop takes the next file, or the run ends
NextFile ==
    /\ pc = "loop"
    /\ IF email_files = <<>>
       THEN /\ pc' = "idle"
            /\ UNCHANGED <<email_files, cur, activity>>
       ELSE /\ cur' = Head(email_files)
            /\ email_files' = Tail(email_files)
            /\ activity' = Append(activity, FileLine("INFO", "processing", Head(email_files)))
            /\ pc' = "extract"
    /\ work' = NoWork
    /\ UNCHANGED <<aux, mail, consume, processed, metaLog, actLog, clock, runs, last>>

\* process_email_file, lines 316-334: read, parse, extract, find the links
Extract ==
    /\ pc = "extract"
    /\ IF ~mail[cur].readable
       THEN Abandon("extract")
       ELSE /\ \E body \in find_unsubscribe_links(mail[cur]) :
                 work' = [work EXCEPT
                            !.sender_domain = mail[cur].from_domain,
                            !.links = body \o list_unsub_urls(mail[cur])]
            /\ pc' = "unsubscribe"
            /\ UNCHANGED <<activity, last, cur>>
    /\ UNCHANGED <<aux, mail, consume, processed, metaLog, actLog, clock, runs, email_files>>

\* process_email_file, lines 336-339: attempt every link
Unsubscribe ==
    /\ pc = "unsubscribe"
    /\ \E out \in [1..Len(work.links) -> Outcomes] :
          LET results == attempt_unsubscribe(work.links, out) IN
          /\ work' = [work EXCEPT !.responses = out, !.results = results]
          /\ activity' = activity \o AttemptLines(results)
    /\ pc' = "whois"
    /\ UNCHANGED <<aux, mail, consume, processed, metaLog, actLog, clock, runs,
                   email_files, cur, last>>

\* process_email_file, lines 341-366: WHOIS lookup, brand identification,
\* report staging, and the processing timestamp read from the clock
Analyse ==
    /\ pc = "whois"
    /\ \E o \in LookupOutcomes, t \in clock..MaxClock :
          LET whois_data ==
                 IF work.sender_domain # NoDomain
                 THEN perform_whois_lookup(work.sender_domain, o)
                 ELSE NoneVal
          IN
          IF Raised(whois_data)
          THEN /\ Abandon("whois")
               /\ UNCHANGED clock
          ELSE /\ work' = [work EXCEPT
                             !.whois_data = whois_data,
                             !.identified = mail[cur].brands,
                             !.processing_timestamp = t]
               /\ clock' = t
               /\ activity' =
                     IF "error" \in DOMAIN whois_data
                     THEN Append(activity, FileLine("ERROR", "whois_failed", cur))
                     ELSE activity
               /\ pc' = "log_metadata"
               /\ UNCHANGED <<cur, last>>
    /\ UNCHANGED <<aux, mail, consume, processed, metaLog, actLog, runs, email_files>>

\* log_processing_results, lines 384-394: the timestamp suffix is read from
\* the clock, then email_metadata_<ts>.json is written
LogMetadata ==
    /\ pc = "log_metadata"
    /\ \E t \in clock..MaxClock :
          /\ clock' = t
          /\ \/ /\ metaLog' = WriteFile(metaLog, FormatTs(t), MetadataRecord(cur, work))
                /\ work' = [work EXCEPT !.timestamp = FormatTs(t)]
                /\ pc' = "log_actions"
                /\ UNCHANGED <<activity, last, cur>>
             \/ /\ \/ UNCHANGED metaLog
                   \/ metaLog' = WriteFile(metaLog, FormatTs(t), Truncated)
                /\ Abandon("persist_metadata")
    /\ UNCHANGED <<aux, mail, consume, processed, actLog, runs, email_files>>

\* log_processing_results, lines 397-405: actions_taken_<ts>.json is written
\* under the same timestamp suffix
LogActions ==
    /\ pc = "log_actions"
    /\ \/ /\ actLog' = WriteFile(actLog, work.timestamp, ActionsRecord(cur, work))
          /\ pc' = "move"
          /\ UNCHANGED <<activity, last, cur, work>>
       \/ /\ \/ UNCHANGED actLog
             \/ actLog' = WriteFile(actLog, work.timestamp, Truncated)
          /\ Abandon("persist_actions")
    /\ UNCHANGED <<aux, mail, consume, processed, metaLog, clock, runs, email_files>>

\* process_email_file, lines 372-376: the file is renamed into processed/
Move ==
    /\ pc = "move"
    /\ \/ /\ consume' = Renamed(cur).consume
          /\ processed' = Renamed(cur).processed
          /\ activity' = Append(activity, FileLine("INFO", "processed", cur))
          /\ last' = Returned(cur, "results", "ok", work)
          /\ pc' = "loop"
          /\ cur' = NoFile
          /\ work' = NoWork
       \/ /\ Abandon("rename")
          /\ UNCHANGED <<consume, processed>>
    /\ UNCHANGED <<aux, mail, metaLog, actLog, clock, runs, email_files>>

\* the run is killed from outside, between any two steps
Kill ==
    /\ pc # "idle"
    /\ pc' = "idle"
    /\ email_files' = <<>>
    /\ cur' = NoFile
    /\ work' = NoWork
    /\ UNCHANGED <<aux, mail, consume, processed, metaLog, actLog, activity, clock, runs, last>>

Next ==
    \/ StartRun
    \/ NextFile
    \/ Extract
    \/ Unsubscribe
    \/ Analyse
    \/ LogMetadata
    \/ LogActions
    \/ Move
    \/ Kill

Spec == Init /\ [][Next]_vars

(* ------------------------- shared vocabulary -------------------------- *)
\* the valid email_metadata records / actions_taken records about `a`
MetadataRecordsOf(a) ==
    {ts \in DOMAIN metaLog : metaLog[ts].valid /\ metaLog[ts].file_path = a}
ActionsRecordsOf(a) ==
    {ts \in DOMAIN actLog : actLog[ts].valid /\ actLog[ts].file_path = a}

\* the step is the external kill (the only step that stops a running
\* process without writing anything)
KillStep ==
    /\ pc # "idle"
    /\ pc' = "idle"
    /\ UNCHANGED <<consume, processed, metaLog, actLog, activity, last>>

\* the step ends the current process_email_file call in its except clause:
\* the error is logged, the file is where it was, and the batch loop goes on
\* with the files that are left
AbandonedStep ==
    /\ activity' = Append(activity, FileLine("ERROR", "error_processing", cur))
    /\ last'.file = cur
    /\ last'.returned = "none"
    /\ cur \in consume'
    /\ UNCHANGED <<consume, processed, email_files>>
    /\ pc' = "loop"

ErrorLogged(a) ==
    \E i \in DOMAIN activity : activity[i] = FileLine("ERROR", "error_processing", a)

(* ------------------------------- C1 ----------------------------------- *)
\* C1: relocation is the last step of process_email_file: whenever an
\* artifact is in the processed directory, an email_metadata record and an
\* actions_taken record about it exist in the log directory.
C1_CompletedHasBothRecords ==
    \A a \in processed :
        MetadataRecordsOf(a) # {} /\ ActionsRecordsOf(a) # {}

(* ------------------------------- C2 ----------------------------------- *)
\* C2: after N successful process_email_file calls the log directory holds
\* N email_metadata records and N actions_taken records, one intact pair
\* per processed artifact (no record of a processed artifact is overwritten).
C2_OnePairPerProcessedArtifact ==
    LET pairs == {ts \in DOMAIN metaLog \cap DOMAIN actLog :
                    /\ metaLog[ts].valid
                    /\ actLog[ts].valid
                    /\ metaLog[ts].file_path = actLog[ts].file_path
                    /\ metaLog[ts].file_path \in processed}
    IN  /\ Cardinality(pairs) = Cardinality(processed)
        /\ \A a \in processed : \E ts \in pairs : metaLog[ts].file_path = a

(* ------------------------------- C3 ----------------------------------- *)
PersistFailures == {"persist_metadata", "persist_actions"}

\* the step is a step of log_processing_results in which the write failed:
\* the file it was to write does not hold the record afterwards
MetadataWriteFailed ==
    /\ pc = "log_metadata"
    /\ ~KillStep
    /\ ~(/\ FormatTs(clock') \in DOMAIN metaLog'
         /\ metaLog'[FormatTs(clock')] = MetadataRecord(cur, work))
ActionsWriteFailed ==
    /\ pc = "log_actions"
    /\ ~KillStep
    /\ ~(/\ work.timestamp \in DOMAIN actLog'
         /\ actLog'[work.timestamp] = ActionsRecord(cur, work))

\* C3 as stated: a failure to write a record propagates out of
\* process_email_file: the call never returns normally (with None) after a
\* write of log_processing_results failed.
C3_PersistenceErrorPropagates ==
    last.why \in PersistFailures => last.returned # "none"

\* C3 as amended: a failure to write a record is caught by the except
\* clause of process_email_file: it is logged as an error, the call returns
\* None, the artifact is not relocated, and the batch loop goes on with the
\* files that are left.
C3_PersistenceErrorIsCaught ==
    [][(MetadataWriteFailed \/ ActionsWriteFailed)
          => (AbandonedStep /\ last'.why \in PersistFailures)]_vars

\* a write failed for one file and the loop has started on the next one
C3_Witness ==
    /\ last.why \in PersistFailures
    /\ last.returned = "none"
    /\ last.file \in consume
    /\ ErrorLogged(last.file)
    /\ pc = "extract"
    /\ cur # last.file

(* ------------------------------- C4 ----------------------------------- *)
\* C4: an artifact whose reading, parsing or extraction fails stays in the
\* consume directory and gets no email_metadata / actions_taken record; the
\* failing call logs the error and the batch loop goes on with the files
\* that are left.
C4_MalformedIsAbandoned ==
    /\ [](\A a \in Deposited :
            ~mail[a].readable =>
                /\ a \in consume
                /\ MetadataRecordsOf(a) = {}
                /\ ActionsRecordsOf(a) = {})
    /\ [][(pc = "extract" /\ ~mail[cur].readable /\ ~KillStep)
             => (AbandonedStep /\ UNCHANGED <<metaLog, actLog>>)]_vars

\* a malformed artifact was abandoned with a log line and a later artifact of
\* the same run was processed and relocated
C4_Witness ==
    \E a \in consume, b \in processed :
        /\ ~mail[a].readable
        /\ ErrorLogged(a)
        /\ last.file = b
        /\ last.returned = "results"

(* ------------------------------- C5 ----------------------------------- *)
\* C5: the opt-out candidate list that is attempted and stored in the
\* result holds no URL twice (deduplicated across header, anchors and text).
C5_CandidatesAreDeduplicated ==
    \A i, j \in DOMAIN work.links :
        i # j => work.links[i] # work.links[j]

(* ------------------------------- C6 ----------------------------------- *)
\* C6: an attempt is recorded as a success exactly when a response arrived
\* whose status code is in 200..299.
C6_SuccessIffStatus2xx ==
    \A i \in DOMAIN work.results :
        work.results[i].success
            <=> (/\ "status" \in DOMAIN work.responses[i]
                 /\ work.responses[i].status \in 200..299)

(* ------------------------------- C7 ----------------------------------- *)
AfterUnsubscribe == {"whois", "log_metadata", "log_actions", "move"}

\* C7: attempt_unsubscribe returns one result per candidate, in candidate
\* order; the results with success = FALSE and an error description are
\* exactly those of the candidates whose request raised; no such failure
\* stops the call, which goes on to the lookup, and the actions record
\* written before the relocation holds all the results.
C7_EveryCandidateIsAttempted ==
    /\ [](pc \in AfterUnsubscribe =>
            /\ Len(work.results) = Len(work.links)
            /\ \A i \in DOMAIN work.links :
                  /\ work.results[i].link = work.links[i]
                  /\ ("exception" \in DOMAIN work.responses[i])
                       <=> (/\ ~work.results[i].success
                            /\ "error" \in DOMAIN work.results[i]))
    /\ [][(pc = "unsubscribe" /\ ~KillStep) => pc' = "whois"]_vars
    /\ [](pc = "move" =>
            /\ work.timestamp \in DOMAIN actLog
            /\ actLog[work.timestamp].valid
            /\ actLog[work.timestamp].unsubscribe_attempts = work.results)

\* an artifact with two candidates, the first request raised and the second
\* got a response, was persisted with both results and relocated
C7_Witness ==
    /\ pc = "loop"
    /\ last.returned = "results"
    /\ last.file \in processed
    /\ last.timestamp \in DOMAIN actLog
    /\ actLog[last.timestamp].valid
    /\ LET r == actLog[last.timestamp].unsubscribe_attempts IN
          /\ Len(r) = 2
          /\ "error" \in DOMAIN r[1]
          /\ "error" \notin DOMAIN r[2]

(* ------------------------------- C8 ----------------------------------- *)
\* C8: when process_email_file has returned its result, the log directory
\* holds one email_metadata_<ts>.json and one actions_taken_<ts>.json of that
\* call, under the same <ts>, with the same file_path and the same
\* processing_timestamp.
C8_RecordPairIsCorrelated ==
    (pc = "loop" /\ last.returned = "results") =>
        LET ts == last.timestamp IN
        /\ ts \in DOMAIN metaLog
        /\ ts \in DOMAIN actLog
        /\ metaLog[ts].valid
        /\ actLog[ts].valid
        /\ metaLog[ts].file_path = last.file
        /\ actLog[ts].file_path = last.file
        /\ metaLog[ts].processing_timestamp = actLog[ts].processing_timestamp
        /\ MetadataRecordsOf(last.file) = {ts}
        /\ ActionsRecordsOf(last.file) = {ts}

\* a call has returned its result, and the clock moved on to the next second
\* between the processing timestamp and the file-name suffix
C8_Witness ==
    /\ pc = "loop"
    /\ last.returned = "results"
    /\ last.timestamp \in DOMAIN metaLog
    /\ metaLog[last.timestamp].valid
    /\ FormatTs(metaLog[last.timestamp].processing_timestamp) # last.timestamp

(* ------------------------------- C9 ----------------------------------- *)
\* C9: at every point, also after a failure or a kill, every deposited
\* artifact is in exactly one of consume/ and processed/, and an artifact in
\* processed/ stays there.
C9_ArtifactInExactlyOneDirectory ==
    /\ [](/\ consume \cap processed = {}
          /\ consume \cup processed = Deposited)
    /\ [][processed \subseteq processed']_vars

\* the run was killed after one artifact was relocated and before the call
\* for another one returned
C9_Witness ==
    /\ pc = "idle"
    /\ runs = 1
    /\ processed # {}
    /\ \E b \in consume :
          /\ ~ErrorLogged(b)
          /\ \E i \in DOMAIN activity : activity[i] = FileLine("INFO", "processing", b)

(* ------------------------------- C10 ---------------------------------- *)
\* C10: perform_whois_lookup never raises: the lookup step always goes on to
\* the logging of the result, with whois_data None for a message without
\* sender domain and otherwise a record that names the queried domain and
\* holds either the registration fields or an error description.
C10_WhoisLookupNeverRaises ==
    [][(pc = "whois" /\ ~KillStep) =>
          /\ pc' = "log_metadata"
          /\ IF work.sender_domain = NoDomain
             THEN work'.whois_data = NoneVal
             ELSE /\ work'.whois_data.domain = work.sender_domain
                  /\ ("registrar" \in DOMAIN work'.whois_data)
                       # ("error" \in DOMAIN work'.whois_data)]_vars

\* an artifact whose lookup failed has both records, the metadata record
\* holding the error placeholder, and was relocated
C10_Witness ==
    \E a \in processed :
        /\ ActionsRecordsOf(a) # {}
        /\ \E ts \in MetadataRecordsOf(a) :
              /\ "error" \in DOMAIN metaLog[ts].whois_data
              /\ metaLog[ts].whois_data.domain = mail[a].from_domain

(* ====================== generate_summary_report ======================= *)
\* the timestamp suffixes the log directory can hold files for
MaxLogFiles == 2
Suffixes == 0..(MaxLogFiles - 1)

\* the locals of a process_email_file call that found the given values
LoggedWork(domain, results, identified) ==
    [NoWork EXCEPT !.sender_domain = domain, !.results = results,
                   !.identified = identified]

\* what earlier runs can have left in an email_metadata file
LoggedMetadata ==
    {Truncated} \cup
    {MetadataRecord("a.eml", LoggedWork(d, <<>>, <<>>)) :
        d \in {NoDomain, "spammy.example", "bulk.example"}}

\* what earlier runs can have left in an actions_taken file
LoggedResults ==
    { LoggedWork(NoDomain, <<>>, <<>>),
      LoggedWork(NoDomain, <<AttemptResult("u1", [status |-> 200])>>, <<"paypal">>),
      LoggedWork(NoDomain, <<AttemptResult("u1", [status |-> 200]),
                             AttemptResult("u2", [status |-> 404])>>, <<"paypal">>),
      LoggedWork(NoDomain, <<AttemptResult("u1", [exception |-> "timeout"])>>, <<>>) }
LoggedActions ==
    {Truncated} \cup {ActionsRecord("a.eml", w) : w \in LoggedResults}

\* the directories that hold files of the given contents under some suffixes
LogDirs(Contents) == UNION {[names -> Contents] : names \in SUBSET Suffixes}

NoMail == [a \in {} |-> Plain]

\* the variables generate_summary_report leaves alone
pipeline == <<mail, consume, processed, clock, runs, email_files, cur, work, last>>

\* the state main() calls generate_summary_report in: earlier runs filled
\* the log directory, no run is in progress
InitSummary ==
    /\ mail = NoMail
    /\ consume = {}
    /\ processed = {}
    /\ metaLog \in LogDirs(LoggedMetadata)
    /\ actLog \in LogDirs(LoggedActions)
    /\ activity = <<>>
    /\ clock = 0
    /\ runs = 0
    /\ pc = "idle"
    /\ email_files = <<>>
    /\ cur = NoFile
    /\ work = NoWork
    /\ last = NoCall
    /\ log_files = <<>>
    /\ summary = NoneVal
    /\ report = NoneVal
    /\ input = NoneVal
    /\ output = NoneVal

\* a line of the activity log about one file of the log directory
LogFileLine(level, event, ts) == [level |-> level, event |-> event, log_file |-> ts]

\* the summary with the files counted as they are folded in, not up front
NewSummaryUncounted(n) ==
    [total_emails_processed |-> 0, domains_encountered |-> <<>>,
     companies_identified |-> <<>>, total_unsubscribe_attempts |-> 0,
     successful_unsubscribes |-> 0]

\* lines 429-435: the summary before the first file is read
NewSummary(n) ==
    [total_emails_processed |-> n, domains_encountered |-> <<>>,
     companies_identified |-> <<>>, total_unsubscribe_attempts |-> 0,
     successful_unsubscribes |-> 0]

\* `if x not in list: list.append(x)`
AppendNew(list, x) == IF x \in Range(list) THEN list ELSE Append(list, x)

\* lines 463-466: the companies of the reports, each appended once
RECURSIVE AppendCompanies(_, _)
AppendCompanies(list, reports) ==
    IF reports = <<>> THEN list
    ELSE AppendCompanies(AppendNew(list, Head(reports).company), Tail(reports))

\* sum(1 for attempt in unsub_attempts if attempt.get("success"))
Successes(attempts) == Cardinality({i \in DOMAIN attempts : attempts[i].success})

\* the actions file read for a metadata file: whichever actions file the
\* directory lists first
actions_file_any(ts) ==
    IF DOMAIN actLog = {} THEN ts ELSE CHOOSE n \in DOMAIN actLog : TRUE

\* lines 451-452: the actions file of the same timestamp suffix
actions_file(ts) == ts

\* lines 441-446: the sender domain of the metadata record is collected
FoldMetadata(s, data) ==
    [s EXCEPT !.domains_encountered =
        IF data.sender_domain # NoDomain
        THEN AppendNew(@, data.sender_domain) ELSE @]

\* lines 458-466: the attempts are counted, the companies are collected
FoldActions(s, actions_data) ==
    [s EXCEPT
       !.total_unsubscribe_attempts = @ + Len(actions_data.unsubscribe_attempts),
       !.successful_unsubscribes = @ + Successes(actions_data.unsubscribe_attempts),
       !.companies_identified = AppendCompanies(@, actions_data.company_reports)]

\* lines 438-466: the body of the try block for one metadata file; meta_ok
\* and act_ok say whether open() of the two files succeeds.  A file that
\* cannot be opened or parsed raises at the point it is read.
read_log_file(s, ts, meta_ok, act_ok) ==
    IF ~meta_ok \/ ~metaLog[ts].valid
    THEN [summary |-> s, raised |-> TRUE]
    ELSE LET s1 == FoldMetadata(s, metaLog[ts])
             a == actions_file(ts)
         IN  IF a \notin DOMAIN actLog
             THEN [summary |-> s1, raised |-> FALSE]
             ELSE IF ~act_ok \/ ~actLog[a].valid
                  THEN [summary |-> s1, raised |-> TRUE]
                  ELSE [summary |-> FoldActions(s1, actLog[a]), raised |-> FALSE]

\* the exception of one file leaving the loop and the function
AbortSummary(ts) ==
    /\ output' = [raised |-> TRUE, error |-> "log_file"]
    /\ pc' = "idle"
    /\ log_files' = <<>>
    /\ UNCHANGED activity

\* lines 468-469: the except clause of the loop body logs and goes on
SkipLogFile(ts) ==
    /\ activity' = Append(activity, LogFileLine("ERROR", "error_reading_log", ts))
    /\ log_files' = Tail(log_files)
    /\ UNCHANGED <<pc, output>>

\* lines 422-435: list the metadata files; none: log and return None
StartSummary ==
    /\ pc = "idle"
    /\ output = NoneVal
    /\ \E files \in Orderings(DOMAIN metaLog) :
          IF files = <<>>
          THEN /\ activity' = Append(activity, RunLine("INFO", "no_processed"))
               /\ output' = [returned |-> NoneVal]
               /\ UNCHANGED <<pc, log_files, summary>>
          ELSE /\ log_files' = files
               /\ summary' = NewSummary(Len(files))
               /\ pc' = "summary_loop"
               /\ UNCHANGED <<activity, output>>
    /\ UNCHANGED <<pipeline, metaLog, actLog, report, input>>

\* lines 437-469: one iteration of the loop over the metadata files
ReadLogFile ==
    /\ pc = "summary_loop"
    /\ log_files # <<>>
    /\ \E meta_ok, act_ok \in BOOLEAN :
          LET r == read_log_file(summary, Head(log_files), meta_ok, act_ok) IN
          /\ summary' = r.summary
          /\ IF r.raised
             THEN SkipLogFile(Head(log_files))
             ELSE /\ log_files' = Tail(log_files)
                  /\ UNCHANGED <<activity, pc, output>>
    /\ UNCHANGED <<pipeline, metaLog, actLog, report, input>>

\* lines 471-477: the summary is written to summary_report_<day>.json and
\* returned; the write is outside any try
WriteSummary ==
    /\ pc = "summary_loop"
    /\ log_files = <<>>
    /\ pc' = "idle"
    /\ \/ /\ report' = summary
          /\ activity' = Append(activity, RunLine("INFO", "summary_saved"))
          /\ output' = [returned |-> summary]
       \/ /\ report' \in {report, Truncated}
          /\ output' = [raised |-> TRUE, error |-> "summary_file"]
          /\ UNCHANGED activity
    /\ UNCHANGED <<pipeline, metaLog, actLog, log_files, summary, input>>

NextSummary ==
    \/ StartSummary
    \/ ReadLogFile
    \/ WriteSummary

SpecSummary == InitSummary /\ [][NextSummary]_vars

\* the step reads the metadata file `ts` in the loop of the summary
ReadStep(ts) ==
    /\ pc = "summary_loop"
    /\ log_files # <<>>
    /\ Head(log_files) = ts
    /\ log_files' # log_files

\* the summary run has ended (returned or raised)
SummaryEnded == pc = "idle" /\ output # NoneVal

\* the activity log holds an error line about the log file `ts`
ReadErrorLogged(ts) ==
    \E i \in DOMAIN activity :
        activity[i] = LogFileLine("ERROR", "error_reading_log", ts)

(* ------------------------------- C11 ---------------------------------- *)
\* C11: when the loop reads a metadata file that has no actions file of the
\* same timestamp suffix, the sender domain of the record (if it could be
\* read and has one) is in domains_encountered afterwards, and the step
\* leaves total_unsubscribe_attempts, successful_unsubscribes and
\* companies_identified as they were.
C11_UnmatchedMetadataAddsDomainOnly ==
    [][\A ts \in DOMAIN metaLog :
          (ReadStep(ts) /\ ts \notin DOMAIN actLog)
          => /\ summary'.total_unsubscribe_attempts = summary.total_unsubscribe_attempts
             /\ summary'.successful_unsubscribes = summary.successful_unsubscribes
             /\ summary'.companies_identified = summary.companies_identified
             /\ (/\ metaLog[ts].valid
                 /\ metaLog[ts].sender_domain # NoDomain
                 /\ activity' = activity)
                => metaLog[ts].sender_domain \in Range(summary'.domains_encountered)]_vars

\* a summary was returned that holds the domain of a metadata record without
\* actions record, while another suffix has an actions record with attempts
C11_Witness ==
    /\ SummaryEnded
    /\ "returned" \in DOMAIN output
    /\ output.returned # NoneVal
    /\ \E ts \in DOMAIN metaLog \ DOMAIN actLog :
          /\ metaLog[ts].valid
          /\ metaLog[ts].sender_domain # NoDomain
          /\ ~ReadErrorLogged(ts)
          /\ metaLog[ts].sender_domain \in Range(output.returned.domains_encountered)
    /\ \E n \in DOMAIN actLog :
          actLog[n].valid /\ actLog[n].unsubscribe_attempts # <<>>

(* ------------------------------- C12 ---------------------------------- *)
\* the suffixes whose loop iteration ended without an exception
ReadCleanly == {ts \in DOMAIN metaLog : ~ReadErrorLogged(ts)}

RECURSIVE SumAttempts(_)
SumAttempts(S) ==
    IF S = {} THEN 0
    ELSE LET ts == CHOOSE x \in S : TRUE
         IN  Len(actLog[ts].unsubscribe_attempts) + SumAttempts(S \ {ts})

\* C12: a malformed or unreadable metadata or actions file never makes
\* generate_summary_report raise.  Once the loop is through, every malformed
\* file has an error line in the activity log, every file pair read without
\* error is folded into the summary (domain, companies, attempt count), and
\* a summary that is returned is the one built and the one written.  The
\* only exception that leaves the function is a failed write of the summary
\* file itself.
C12_BadRecordIsSkipped ==
    /\ (SummaryEnded /\ "raised" \in DOMAIN output) => output.error = "summary_file"
    /\ (SummaryEnded /\ "returned" \in DOMAIN output /\ DOMAIN metaLog # {})
          => output.returned = summary /\ report = summary
    /\ ((pc = "summary_loop" /\ log_files = <<>>) \/ (SummaryEnded /\ summary # NoneVal))
          => /\ \A ts \in DOMAIN metaLog :
                   /\ ~metaLog[ts].valid => ReadErrorLogged(ts)
                   /\ (ts \in DOMAIN actLog /\ metaLog[ts].valid /\ ~actLog[ts].valid)
                        => ReadErrorLogged(ts)
             /\ \A ts \in ReadCleanly :
                   /\ metaLog[ts].sender_domain # NoDomain
                        => metaLog[ts].sender_domain \in Range(summary.domains_encountered)
                   /\ ts \in DOMAIN actLog =>
                        \A i \in DOMAIN actLog[ts].company_reports :
                           actLog[ts].company_reports[i].company
                              \in Range(summary.companies_identified)
             /\ summary.total_unsubscribe_attempts
                   = SumAttempts(ReadCleanly \cap DOMAIN actLog)

\* a summary was written and returned although one metadata file and one
\* actions file were malformed; the readable pair is in the summary
C12_Witness ==
    /\ SummaryEnded
    /\ "returned" \in DOMAIN output
    /\ report = summary
    /\ \E ts \in DOMAIN metaLog : ~metaLog[ts].valid /\ ReadErrorLogged(ts)
    /\ \E ts \in DOMAIN metaLog \cap DOMAIN actLog :
          /\ ~ReadErrorLogged(ts)
          /\ summary.total_unsubscribe_attempts = Len(actLog[ts].unsubscribe_attempts)
          /\ summary.total_unsubscribe_attempts > 0

(* ------------------------------- C19 ---------------------------------- *)
\* C19: from the moment the summary exists, total_emails_processed is the
\* number of email_metadata files in the log directory (malformed ones and
\* ones without actions file included), and successful_unsubscribes is at
\* most total_unsubscribe_attempts.
C19_TotalCountsMetadataFiles ==
    summary # NoneVal
    => /\ summary.total_emails_processed = Cardinality(DOMAIN metaLog)
       /\ summary.successful_unsubscribes <= summary.total_unsubscribe_attempts

\* a returned summary that counts a malformed metadata file and one without
\* actions file, with fewer successes than attempts
C19_Witness ==
    /\ SummaryEnded
    /\ "returned" \in DOMAIN output
    /\ output.returned # NoneVal
    /\ output.returned.total_emails_processed = 2
    /\ \E ts \in DOMAIN metaLog : ~metaLog[ts].valid
    /\ output.returned.successful_unsubscribes < output.returned.total_unsubscribe_attempts
    /\ output.returned.successful_unsubscribes > 0

(* ===================== the extraction functions ======================= *)
\* everything but the result of the call
untouched == <<pipeline, metaLog, actLog, activity, pc, log_files, summary, report, input>>

\* Text is a sequence of one-character strings.
LowerLetters ==
    <<"a", "b", "c", "d", "e", "f", "g", "h", "i", "j", "k", "l", "m", "n", "o", "p", "q", "r", "s", "t", "u", "v", "w", "x", "y", "z">>
UpperLetters ==
    <<"A", "B", "C", "D", "E", "F", "G", "H", "I", "J", "K", "L", "M", "N", "O", "P", "Q", "R", "S", "T", "U", "V", "W", "X", "Y", "Z">>
Digits == {"0", "1", "2", "3", "4", "5", "6", "7", "8", "9"}

\* str.lower() of one character and of a text
LowerChar(c) ==
    IF c \in Range(UpperLetters)
    THEN LowerLetters[CHOOSE i \in DOMAIN UpperLetters : UpperLetters[i] = c]
    ELSE c
Lower(text) == [i \in DOMAIN text |-> LowerChar(text[i])]

\* `needle in hay` of two Python strings
Contains(hay, needle) ==
    \E i \in 0..(Len(hay) - Len(needle)) :
        SubSeq(hay, i + 1, i + Len(needle)) = needle

\* the text as one string value
RECURSIVE Join(_)
Join(text) == IF text = <<>> THEN "" ELSE Head(text) \o Join(Tail(text))

\* the keys of self.company_reporting, in the order of the dict
company_reporting ==
    << <<"p", "a", "y", "p", "a", "l">>, <<"a", "m", "a", "z", "o", "n">>, <<"a", "p", "p", "l", "e">>, <<"m", "i", "c", "r", "o", "s", "o", "f", "t">>, <<"g", "o", "o", "g", "l", "e">>,
       <<"f", "a", "c", "e", "b", "o", "o", "k">>, <<"e", "b", "a", "y">>, <<"n", "e", "t", "f", "l", "i", "x">>, <<"u", "p", "s">>, <<"f", "e", "d", "e", "x">>,
       <<"w", "e", "l", "l", "s", " ", "f", "a", "r", "g", "o">>, <<"c", "h", "a", "s", "e">>, <<"b", "a", "n", "k", " ", "o", "f", " ", "a", "m", "e", "r", "i", "c", "a">> >>

\* line 250: the four texts joined by single spaces
all_content(text_content, html_content, metadata) ==
    text_content \o <<" ">> \o html_content \o <<" ">> \o metadata.subject
    \o <<" ">> \o metadata.from

\* the keys of `keys` that occur in `content`, in the order of `keys`
RECURSIVE KeysIn(_, _)
KeysIn(keys, content) ==
    IF keys = <<>> THEN <<>>
    ELSE (IF Contains(content, Head(keys)) THEN <<Head(keys)>> ELSE <<>>)
         \o KeysIn(Tail(keys), content)

\* the search without .lower() on the content
identify_company_case_sensitive(text_content, html_content, metadata) ==
    KeysIn(company_reporting, all_content(text_content, html_content, metadata))

\* identify_company_from_content, lines 246-257
identify_company_from_content(text_content, html_content, metadata) ==
    KeysIn(company_reporting,
           Lower(all_content(text_content, html_content, metadata)))

\* the texts the four searched fields are drawn from
FieldTexts ==
    { <<>>, <<"Y", "o", "u", "r", " ", "A", "M", "A", "Z", "O", "N", " ", "o", "r", "d", "e", "r">>, <<"P", "a", "y", "P", "a", "l">>, <<"g", "r", "o", "u", "p", "s">>, <<"w", "e", "l", "l", "s">>, <<"f", "a", "r", "g", "o">> }

IdentifyInputs ==
    {[fn |-> "identify_company_from_content", text_content |-> t,
      html_content |-> h, metadata |-> [subject |-> s, from |-> f]] :
        t \in FieldTexts, h \in FieldTexts, s \in FieldTexts, f \in FieldTexts}

\* process_email_file, line 348: the call of identify_company_from_content
IdentifyCompany ==
    /\ input.fn = "identify_company_from_content"
    /\ output = NoneVal
    /\ output' = [returned |->
          identify_company_from_content(input.text_content, input.html_content,
                                        input.metadata)]
    /\ UNCHANGED untouched


(* -------------------- extract_email_metadata (C14) -------------------- *)
\* the character class [a-zA-Z0-9.-] of the regular expression of line 126
DomainChars == Range(LowerLetters) \cup Range(UpperLetters) \cup Digits \cup {".", "-"}

\* the positions re.search(r'@([a-zA-Z0-9.-]+)', s) can match at: an '@'
\* directly followed by a character of the class
MatchStarts(s) == {i \in 1..(Len(s) - 1) : s[i] = "@" /\ s[i + 1] \in DomainChars}

\* the end of the longest run of characters of the set C that starts at i
RunEnd(s, i, C) ==
    CHOOSE j \in i..Len(s) :
        /\ \A k \in i..j : s[k] \in C
        /\ j = Len(s) \/ s[j + 1] \notin C

\* re.search: the leftmost match, its group 1 as long as possible
domain_match(s) ==
    IF MatchStarts(s) = {} THEN NoneVal
    ELSE LET i == CHOOSE m \in MatchStarts(s) : \A n \in MatchStarts(s) : m <= n
         IN  [group1 |-> SubSeq(s, i + 1, RunEnd(s, i + 1, DomainChars))]

\* extract_email_metadata, lines 123-130, for the decoded From header `from`
extract_email_metadata(from) ==
    IF "@" \in Range(from) /\ domain_match(from) # NoneVal
    THEN [from |-> from, sender_domain |-> domain_match(from).group1]
    ELSE [from |-> from]

\* the decoded From headers extract_email_metadata is called on
MaxSenderLen == 4
SenderAlphabet == {"a", ".", "_", "@", "<", ">", " "}
SenderInputs ==
    {[fn |-> "extract_email_metadata", from |-> s] :
        s \in UNION {[1..n -> SenderAlphabet] : n \in 0..MaxSenderLen}}

\* process_email_file, line 321: the call of extract_email_metadata
ExtractMetadata ==
    /\ input.fn = "extract_email_metadata"
    /\ output = NoneVal
    /\ output' = [returned |-> extract_email_metadata(input.from)]
    /\ UNCHANGED untouched


(* ----------------------- decode_mime_words (C15) ---------------------- *)
\* A header value is described by what email.header.decode_header makes of
\* it: a list of (part, encoding) pairs.  A header without encoded words is
\* one str part; a header with encoded words is a list of bytes parts, each
\* with the charset its encoded word declares ("" for the text in between).
\* A byte is "a" (ASCII) or "FF" (the byte 0xFF: not valid UTF-8, 'y' with
\* diaeresis in ISO-8859-1).
NoCharset == ""
Charsets == {"utf-8", "iso-8859-1", "x-unknown"}
KnownCharsets == {"utf-8", "iso-8859-1"}
ByteStrings == { <<"a">>, <<"a", "FF">> }

StrPart(text) == [is_bytes |-> FALSE, data |-> text, charset |-> NoCharset]
BytesPart(data, charset) == [is_bytes |-> TRUE, data |-> data, charset |-> charset]
BytesParts == {BytesPart(d, c) : d \in ByteStrings, c \in Charsets \cup {NoCharset}}

\* the most parts a header value is split into
MaxParts == 2
HeaderValues ==
    { <<>>, <<StrPart(<<"a">>)>> }
    \cup UNION {[1..n -> BytesParts] : n \in 1..MaxParts}

HeaderInputs == {[fn |-> "decode_mime_words", parts |-> h] : h \in HeaderValues}

\* the bytes without those that are not valid UTF-8
RECURSIVE DropInvalid(_)
DropInvalid(data) ==
    IF data = <<>> THEN <<>>
    ELSE (IF Head(data) = "FF" THEN <<>> ELSE <<Head(data)>>) \o DropInvalid(Tail(data))

\* bytes.decode(charset) and bytes.decode('utf-8', errors='ignore')
BytesDecode(data, charset, errors) ==
    IF charset \notin KnownCharsets
    THEN [raised |-> TRUE, error |-> "LookupError"]
    ELSE IF charset = "iso-8859-1"
    THEN [raised |-> FALSE, text |-> [i \in DOMAIN data |-> IF data[i] = "FF" THEN "y:" ELSE data[i]]]
    ELSE IF errors = "ignore"
    THEN [raised |-> FALSE, text |-> DropInvalid(data)]
    ELSE IF "FF" \in Range(data)
    THEN [raised |-> TRUE, error |-> "UnicodeDecodeError"]
    ELSE [raised |-> FALSE, text |-> data]

\* lines 98-104: what one (part, encoding) pair adds to decoded_text
DecodePart(part) ==
    IF part.is_bytes
    THEN IF part.charset # NoCharset
         THEN BytesDecode(part.data, part.charset, "strict")
         ELSE BytesDecode(part.data, "utf-8", "ignore")
    ELSE [raised |-> FALSE, text |-> part.data]

\* decode_mime_words, lines 89-106: the parts are decoded and concatenated in
\* order; the exception of a part leaves the function
RECURSIVE DecodeLoop(_, _)
DecodeLoop(parts, decoded_text) ==
    IF parts = <<>> THEN [raised |-> FALSE, text |-> decoded_text]
    ELSE LET d == DecodePart(Head(parts))
         IN  IF d.raised THEN d
             ELSE DecodeLoop(Tail(parts), decoded_text \o d.text)

decode_mime_words(parts) == DecodeLoop(parts, <<>>)

\* extract_email_metadata, lines 112-114: a call of decode_mime_words
DecodeHeader ==
    /\ input.fn = "decode_mime_words"
    /\ output = NoneVal
    /\ output' = LET d == decode_mime_words(input.parts)
                 IN  IF d.raised THEN d ELSE [returned |-> d.text]
    /\ UNCHANGED untouched

ExtractionInputs == IdentifyInputs \cup SenderInputs \cup HeaderInputs

\* an extraction function is about to be called on some arguments
InitExtraction ==
    /\ mail = NoMail
    /\ consume = {}
    /\ processed = {}
    /\ metaLog = EmptyDir
    /\ actLog = EmptyDir
    /\ activity = <<>>
    /\ clock = 0
    /\ runs = 0
    /\ pc = "idle"
    /\ email_files = <<>>
    /\ cur = NoFile
    /\ work = NoWork
    /\ last = NoCall
    /\ log_files = <<>>
    /\ summary = NoneVal
    /\ report = NoneVal
    /\ input \in ExtractionInputs
    /\ output = NoneVal

NextExtraction ==
    \/ IdentifyCompany
    \/ ExtractMetadata
    \/ DecodeHeader

SpecExtraction == InitExtraction /\ [][NextExtraction]_vars

\* the call under study has returned
Called(fn) == input.fn = fn /\ output # NoneVal

(* ------------------------------- C13 ---------------------------------- *)
\* C13: identify_company_from_content returns, each once, exactly the keys
\* of company_reporting whose lowercase form is a substring of the lowercased
\* text made of the text content, the HTML content, the subject and the
\* sender (joined by single spaces, as line 250 joins them); the subject
\* "Your AMAZON order" alone yields "amazon".
C13_BrandsAreCaseInsensitiveSubstrings ==
    Called("identify_company_from_content")
    => LET searched ==
              Lower(input.text_content \o <<" ">> \o input.html_content
                    \o <<" ">> \o input.metadata.subject
                    \o <<" ">> \o input.metadata.from)
           found == output.returned
       IN  /\ Range(found)
                = {k \in Range(company_reporting) : Contains(searched, Lower(k))}
           /\ \A i, j \in DOMAIN found : found[i] = found[j] => i = j
           /\ (/\ input.metadata.subject = <<"Y", "o", "u", "r", " ", "A", "M", "A", "Z", "O", "N", " ", "o", "r", "d", "e", "r">>
               /\ input.text_content = <<>>
               /\ input.html_content = <<>>
               /\ input.metadata.from = <<>>)
              => found = << <<"a", "m", "a", "z", "o", "n">> >>

\* the subject "Your AMAZON order" was searched and "amazon" was returned
C13_Witness ==
    /\ Called("identify_company_from_content")
    /\ input.metadata.subject = <<"Y", "o", "u", "r", " ", "A", "M", "A", "Z", "O", "N", " ", "o", "r", "d", "e", "r">>
    /\ input.text_content = <<>>
    /\ output.returned = << <<"a", "m", "a", "z", "o", "n">> >>

(* ------------------------------- C14 ---------------------------------- *)
\* the characters a sender address ends at in a From header
AddressDelimiters == {" ", "<", ">"}
\* the sender address around the '@' at position p: the longest run of
\* characters that holds the '@' and no delimiter
AddressStart(s, p) ==
    CHOOSE i \in 1..p : /\ \A k \in i..p : s[k] \notin AddressDelimiters
                        /\ i = 1 \/ s[i - 1] \in AddressDelimiters
AddressEnd(s, p) ==
    CHOOSE j \in p..Len(s) : /\ \A k \in p..j : s[k] \notin AddressDelimiters
                             /\ j = Len(s) \/ s[j + 1] \in AddressDelimiters
AtPositions(s) == {p \in DOMAIN s : s[p] = "@"}
\* the address around position p has a local part, a domain part and one '@'
ValidAddressAt(s, p) ==
    /\ AddressStart(s, p) < p
    /\ p < AddressEnd(s, p)
    /\ \A q \in AtPositions(s) : q # p => (q < AddressStart(s, p) \/ q > AddressEnd(s, p))

\* C14: when the sender field holds exactly one '@' and the sender address
\* has something after it, sender_domain is the part of the sender address
\* after the '@'; sender_domain is absent when the sender field holds no
\* syntactically valid '@'-delimited address.
C14_SenderDomainIsAfterAt ==
    Called("extract_email_metadata")
    => LET s == input.from
           metadata == output.returned
       IN  /\ \A p \in AtPositions(s) :
                  (AtPositions(s) = {p} /\ p < AddressEnd(s, p))
                  => /\ "sender_domain" \in DOMAIN metadata
                     /\ metadata.sender_domain = SubSeq(s, p + 1, AddressEnd(s, p))
           /\ (\A p \in AtPositions(s) : ~ValidAddressAt(s, p))
                  => "sender_domain" \notin DOMAIN metadata

(* ------------------------------- C15 ---------------------------------- *)
\* C15: decode_mime_words never raises: whatever charset the encoded words
\* of a header declare and whatever bytes they hold, the call returns a text.
C15_DecodeNeverRaises ==
    Called("decode_mime_words") => "returned" \in DOMAIN output

(* ================= the end-to-end scenario (C16) ====================== *)
\* a regular expression of unsubscribe_patterns: literals joined by `.*`,
\* each literal given as the set of texts it stands for
UnsubscribeLiteral == << {<<"u", "n", "s", "u", "b", "s", "c", "r", "i", "b", "e">>} >>

\* self.unsubscribe_patterns without its first entry
unsubscribe_patterns_without_first ==
    << << {<<"o", "p", "t", "o", "u", "t">>, <<"o", "p", "t", "-", "o", "u", "t">>, <<"o", "p", "t", " ", "o", "u", "t">>} >>,
       << {<<"r", "e", "m", "o", "v", "e">>}, {<<"l", "i", "s", "t">>} >>,
       << {<<"s", "t", "o", "p">>}, {<<"e", "m", "a", "i", "l">>} >>,
       << {<<"c", "l", "i", "c", "k">>}, {<<"h", "e", "r", "e">>}, {<<"r", "e", "m", "o", "v", "e">>} >>,
       << {<<"u", "p", "d", "a", "t", "e">>}, {<<"p", "r", "e", "f", "e", "r", "e", "n", "c", "e", "s">>} >>,
       << {<<"m", "a", "n", "a", "g", "e">>}, {<<"s", "u", "b", "s", "c", "r", "i", "p", "t", "i", "o", "n">>} >> >>

\* self.unsubscribe_patterns, lines 65-73
unsubscribe_patterns ==
    << UnsubscribeLiteral >> \o unsubscribe_patterns_without_first

\* re.search(pattern, text, re.IGNORECASE): the literals occur in order from
\* `start` on; `.` matches no newline, so none lies between two literals
RECURSIVE SearchFrom(_, _, _, _)
SearchFrom(pattern, text, start, first) ==
    IF pattern = <<>> THEN TRUE
    ELSE \E literal \in Head(pattern) :
         \E i \in start..(Len(text) - Len(literal) + 1) :
            /\ SubSeq(Lower(text), i, i + Len(literal) - 1) = literal
            /\ first \/ "\n" \notin Range(SubSeq(text, start, i - 1))
            /\ SearchFrom(Tail(pattern), text, i + Len(literal), FALSE)

re_search(pattern, text) == SearchFrom(pattern, text, 1, TRUE)

\* lines 174-180: the link text, lowercased, matches one of the patterns
MatchesUnsubscribePattern(link_text) ==
    \E n \in DOMAIN unsubscribe_patterns :
        re_search(unsubscribe_patterns[n], Lower(link_text))

\* the message of the scenario: subject "50% OFF!!!", sender
\* deals@spammy.example, no List-Unsubscribe header, no plain-text part, an
\* HTML body that is the one anchor
ScenarioHref == <<"h", "t", "t", "p", ":", "/", "/", "s", "p", "a", "m", "m", "y", ".", "e", "x", "a", "m", "p", "l", "e", "/", "u", "n", "s", "u", "b">>
ScenarioLinkText == <<"U", "n", "s", "u", "b", "s", "c", "r", "i", "b", "e">>
ScenarioMessage ==
    [subject |-> <<"5", "0", "%", " ", "O", "F", "F", "!", "!", "!">>,
     from |-> <<"d", "e", "a", "l", "s", "@", "s", "p", "a", "m", "m", "y", ".", "e", "x", "a", "m", "p", "l", "e">>,
     list_unsubscribe |-> <<>>,
     text_content |-> <<>>,
     html_content |->
        <<"<", "a", " ", "h", "r", "e", "f", "=">> \o <<"\"">> \o ScenarioHref \o <<"\"">> \o <<">">>
        \o ScenarioLinkText \o <<"<", "/", "a", ">">>,
     anchors |-> << [href |-> ScenarioHref, text |-> ScenarioLinkText] >>]

\* what the extraction steps of process_email_file (lines 321-348) read from
\* a message without plain-text part: the plain-text detector is skipped
\* for an empty text (line 183)
Parsed(msg) ==
    LET metadata == extract_email_metadata(msg.from)
        found == identify_company_from_content(
                     msg.text_content, msg.html_content,
                     [subject |-> msg.subject, from |-> msg.from])
    IN  [readable |-> TRUE,
         from_domain |-> IF "sender_domain" \in DOMAIN metadata
                         THEN Join(metadata.sender_domain) ELSE NoDomain,
         list_unsubscribe |-> msg.list_unsubscribe,
         anchors |-> [i \in DOMAIN msg.anchors |->
                        Anchor(Join(msg.anchors[i].href),
                               MatchesUnsubscribePattern(msg.anchors[i].text))],
         text_urls |-> <<>>,
         brands |-> [i \in DOMAIN found |-> Join(found[i])]]

ScenarioMail == Parsed(ScenarioMessage)

\* the scenario's artifact is the one file of the intake directory
InitScenario ==
    /\ mail = [a \in {"a.eml"} |-> ScenarioMail]
    /\ consume = Deposited
    /\ processed = {}
    /\ metaLog = EmptyDir
    /\ actLog = EmptyDir
    /\ activity = <<>>
    /\ clock = 0
    /\ runs = 0
    /\ pc = "idle"
    /\ email_files = <<>>
    /\ cur = NoFile
    /\ work = NoWork
    /\ last = NoCall
    /\ log_files = <<>>
    /\ summary = NoneVal
    /\ report = NoneVal
    /\ input = NoneVal
    /\ output = NoneVal

SpecScenario == InitScenario /\ [][Next]_vars

\* C16: the scenario's artifact has exactly one opt-out candidate, the href
\* of its anchor; no brand is identified.  When process_email_file returns
\* its results, the artifact is in the processed directory and no longer in
\* consume, the actions record holds exactly one attempt (for that href,
\* whatever the request did) and no company report, and the metadata record
\* holds a whois_data record with domain spammy.example (whatever the lookup
\* did).  The only calls that return None are those whose record write or
\* rename failed.
C16_ScenarioOutcome ==
    /\ pc \in {"unsubscribe", "whois", "log_metadata", "log_actions", "move"}
          => work.links = <<"http://spammy.example/unsub">>
    /\ pc \in {"log_metadata", "log_actions", "move"}
          => /\ work.identified = <<>>
             /\ work.whois_data # NoneVal
             /\ work.whois_data.domain = "spammy.example"
    /\ last.returned = "results"
          => /\ last.file \in processed \ consume
             /\ last.timestamp \in DOMAIN metaLog \cap DOMAIN actLog
             /\ LET a == actLog[last.timestamp]
                    m == metaLog[last.timestamp]
                IN  /\ a.valid /\ m.valid
                    /\ Len(a.unsubscribe_attempts) = 1
                    /\ a.unsubscribe_attempts[1].link = "http://spammy.example/unsub"
                    /\ a.company_reports = <<>>
                    /\ m.sender_domain = "spammy.example"
                    /\ m.whois_data # NoneVal
                    /\ m.whois_data.domain = "spammy.example"
    /\ last.returned = "none"
          => last.why \in {"persist_metadata", "persist_actions", "rename"}

\* the scenario's artifact was relocated although the opt-out request and
\* the lookup both failed
C16_Witness ==
    /\ last.returned = "results"
    /\ last.file \in processed
    /\ last.timestamp \in DOMAIN metaLog \cap DOMAIN actLog
    /\ actLog[last.timestamp].valid
    /\ metaLog[last.timestamp].valid
    /\ Len(actLog[last.timestamp].unsubscribe_attempts) = 1
    /\ ~actLog[last.timestamp].unsubscribe_attempts[1].success
    /\ "error" \in DOMAIN metaLog[last.timestamp].whois_data

(* ------------------------------- C17 ---------------------------------- *)
\* how often the activity log holds the line
Count(line) == Cardinality({i \in DOMAIN activity : activity[i] = line})

\* a step of the run itself (not the kill from outside)
RunStep ==
    \/ NextFile
    \/ Extract
    \/ Unsubscribe
    \/ Analyse
    \/ LogMetadata
    \/ LogActions
    \/ Move

\* what is left to do of the run: the files still to iterate over, and the
\* steps left of the current call
StepsLeft ==
    CASE pc = "idle"         -> 0
      [] pc = "loop"         -> 1
      [] pc = "move"         -> 2
      [] pc = "log_actions"  -> 3
      [] pc = "log_metadata" -> 4
      [] pc = "whois"        -> 5
      [] pc = "unsubscribe"  -> 6
      [] pc = "extract"      -> 7
RunMeasure == 8 * Len(email_files) + StepsLeft

\* the loop of process_all_emails is through
LoopDone == pc = "loop" /\ email_files = <<>>

\* the artifact was handled once and ended relocated with a success line,
\* or still in consume with an error line
HandledOnce(a) ==
    /\ Count(FileLine("INFO", "processing", a)) = 1
    /\ \/ /\ a \in processed /\ a \notin consume
          /\ Count(FileLine("INFO", "processed", a)) = 1
          /\ ~ErrorLogged(a)
       \/ /\ a \in consume /\ a \notin processed
          /\ Count(FileLine("ERROR", "error_processing", a)) = 1
          /\ Count(FileLine("INFO", "processed", a)) = 0

\* C17: a run of process_all_emails that is not killed terminates: while it
\* runs a step of the run is always possible and every step brings it
\* closer to its end.  When its loop is through, every artifact that was in
\* the intake directory at its start was handled exactly once and is either
\* in the processed directory with a success line in the activity log, or
\* still in the intake directory with an error line.
C17_RunHandlesEveryArtifactOnce ==
    [][/\ pc # "idle" => (ENABLED RunStep /\ RunMeasure' < RunMeasure)
       /\ LoopDone => \A a \in Deposited : HandledOnce(a)]_vars

\* the loop over two artifacts is through: one was relocated, the other one
\* was abandoned and is still in consume
C17_Witness ==
    /\ LoopDone
    /\ \E a, b \in Deposited :
          /\ a \in processed /\ Count(FileLine("INFO", "processed", a)) = 1
          /\ b \in consume /\ ErrorLogged(b)

(* ===================== a later run (C18) ============================== *)
\* how many runs of process_all_emails are started, one after the other
MaxRuns == 2

\* the artifacts of the runs hold a readable message
InitRerun ==
    /\ \E files \in SUBSET Artifacts : mail \in [files -> {Plain}]
    /\ consume = Deposited
    /\ processed = {}
    /\ metaLog = EmptyDir
    /\ actLog = EmptyDir
    /\ activity = <<>>
    /\ clock = 0
    /\ runs = 0
    /\ pc = "idle"
    /\ email_files = <<>>
    /\ cur = NoFile
    /\ work = NoWork
    /\ last = NoCall
    /\ log_files = <<>>
    /\ summary = NoneVal
    /\ report = NoneVal
    /\ input = NoneVal
    /\ output = NoneVal

\* main() is started again after an earlier run ended: process_all_emails,
\* lines 409-415, lists what is in the consume directory now
Restart ==
    /\ pc = "idle"
    /\ runs >= 1
    /\ runs < MaxRuns
    /\ runs' = runs + 1
    /\ \E files \in Orderings(consume) :
          IF files = <<>>
          THEN /\ activity' = Append(activity, RunLine("INFO", "no_files"))
               /\ UNCHANGED <<pc, email_files>>
          ELSE /\ activity' = Append(activity, RunLine("INFO", "found_files"))
               /\ email_files' = files
               /\ pc' = "loop"
    /\ UNCHANGED <<aux, mail, consume, processed, metaLog, actLog, clock, cur, work, last>>

NextRerun ==
    \/ StartRun
    \/ Restart
    \/ NextFile
    \/ Extract
    \/ Unsubscribe
    \/ Analyse
    \/ LogMetadata
    \/ LogActions
    \/ Move
    \/ Kill

SpecRerun == InitRerun /\ [][NextRerun]_vars

\* the step is log_processing_results failing at its second write
ActionsWriteFails == pc = "log_actions" /\ pc' = "loop"

\* the log directory holds a readable actions record under the suffix
ActionsRecordAt(dir, ts) == ts \in DOMAIN dir /\ dir[ts].valid

\* C18: when the write of the actions record fails after the metadata
\* record was written, the metadata record stays in the log directory and
\* no actions record of the same timestamp suffix is there, the artifact is
\* still in consume, and process_email_file has returned None; a run
\* started later lists every artifact that is still in consume.
C18_FailedPairLeavesOrphanMetadata ==
    [][/\ ActionsWriteFails
          => /\ metaLog' = metaLog
             /\ metaLog[work.timestamp] = MetadataRecord(cur, work)
             /\ ~ActionsRecordAt(actLog', work.timestamp)
             /\ cur \in consume' /\ cur \notin processed'
             /\ last' = Returned(cur, "none", "persist_actions", work)
       /\ (pc = "idle" /\ pc' = "loop") => Range(email_files') = consume]_vars
====
